---- MODULE Spec2Model ----
(***************************************************************************)
(* Model of the Guideline statement importers                              *)
(*   guideline/guideline_importer_pdf.py  (GuidelineImporter_PDF)          *)
(*   guideline/guidelinereader.py         (Importer)                       *)
(*   guideline/regex_formatter.py         (the patterns)                   *)
(*                                                                         *)
(* Amounts are integers counting thousandths of a dollar (500.00 is        *)
(* 500000, 0.005 is 5), standing for the floats the code computes with.    *)
(* An aggregate operation [line, kind, fields] of the code is the record   *)
(* [line, kind, amount]; a posting likewise.  file_postings holds the      *)
(* positions in all_postings of the postings the code collects.            *)
(*                                                                         *)
(* GuidelineImporter_PDF.extract (line 82) calls self._getOperations,      *)
(* while the class defines getOperations, and getOperations (line 195)     *)
(* calls self._clean_statement, which only the reader class defines        *)
(* (guidelinereader.py, lines 241-292).  The model resolves the first call *)
(* to getOperations and the second to the reader's _clean_statement; as    *)
(* written, either call raises AttributeError before any parsing.          *)
(***************************************************************************)
EXTENDS Integers, Sequences, FiniteSets, TLC

VARIABLES
    statement,      \* the text of the statement, a sequence of lines
    account,        \* what _searchAccounts gave: [exc, value]
    clean_statement,\* the text _clean_statement gave
    line,           \* the line-end offsets over clean_statement
    pc,             \* where the call stands: "start", "extract", "loop",
                    \* "done"; "clean", "cleaned", "recleaned" for
                    \* _clean_statement alone; "reader" for the Importer
    aggregate_ops,  \* the sorted aggregate operations of the statement
    all_postings,   \* the sorted postings of the statement
    num_lines,      \* read_file: len(text.splitlines()) of the raw text
    index,          \* extract: the loop index (1-based)
    max_line_end,   \* extract: line 83
    entries,        \* extract: the local list of entries
    windows,        \* extract: file_postings of each iteration so far
    outcome,        \* "running", "returned" (extract), "read" (read_file)
                    \* or the exception raised
    returned,       \* what the caller received from extract
    rdr,            \* read_file: the rows built (self.rdr)
    rf_windows,     \* read_file: postings of each iteration
    statement_year, \* the year the statement text states (0: not searched)
    file,           \* Importer: self.file, NoFile while the attribute is unset
    file_read_done, \* Importer: self.file_read_done: "unset", "False", "True"
    ifile           \* Importer: self.ifile, NoFile while the attribute is unset

vars == <<statement, account, clean_statement, line, pc, aggregate_ops, all_postings, num_lines, index, max_line_end,
          entries, windows, outcome, returned, rdr, rf_windows,
          statement_year, file, file_read_done, ifile>>

text_vars == <<statement, account, clean_statement, line>>

(* the attributes of the Importer object that outlive a call *)
obj_vars == <<file, file_read_done, ifile>>

(* getattr(self, 'file', None) before any assignment; no statement file is
   the empty text *)
NoFile == <<>>

---------------------------------------------------------------------------
(* Bounds of the inputs *)

(* the lines of a cleaned text are 0..MaxLine *)
MaxLine == 3

(* the raw text holds, before the lines that survive cleaning, at least
   the statement-year line, the account line and the transaction-begin line *)
HeaderLines == 3

(* the lines of a statement after its heading *)
MaxBody == 4

(* the lines of a text given to _clean_statement alone *)
MaxCleanLines == 3

(* amounts of the enumerated inputs, in thousandths: every aggregate
   operation states 1.00 *)
EventAmounts == {1000}

BuyAmounts == {500, 505, 1000}

SellAmounts == {500}

ReinvestAmounts == {520}

(* the years the enumerated statements state *)
StatementYears == {2023}

---------------------------------------------------------------------------
(* Program constants *)

AggrOps == {"PAYROLL", "FEE", "EXCHANGE", "DIVIDEND"}

Postings == {"BUY", "SELL", "REINVEST"}

(* abs_tol=0.01 of math.isclose, in thousandths *)
AbsTol == 10

(* 1 / rel_tol of math.isclose: its default rel_tol is 1e-09 *)
RelTolInv == 1000000000

(* line 141: the year extract appends to the date of every event *)
ExtractYear == 2022

---------------------------------------------------------------------------
(* Helpers *)

Abs(x) == IF x < 0 THEN -x ELSE x

Max2(a, b) == IF a >= b THEN a ELSE b

(* math.isclose(a, b, abs_tol=t): |a-b| <= max(rel_tol*max(|a|,|b|), t);
   for integers the relative term compares as its floor *)
isclose_strict(a, b, abs_tol) ==
    Abs(a - b) < Max2(Max2(Abs(a), Abs(b)) \div RelTolInv, abs_tol)

isclose(a, b, abs_tol) ==
    Abs(a - b) <= Max2(Max2(Abs(a), Abs(b)) \div RelTolInv, abs_tol)

RECURSIVE SumAmounts(_, _, _)
(* the += of line 114 over the collected postings fp[1..n] *)
SumAmounts(posts, fp, n) ==
    IF n = 0 THEN 0 ELSE SumAmounts(posts, fp, n - 1) + posts[fp[n]].amount

---------------------------------------------------------------------------
(* Text.  A text is the sequence of its lines, '\n'.join(lines); a line is
   [kind, len, trail, val]: len characters up to its last non-blank one,
   then trail blanks.  kind says which pattern of regex_formatter.py the
   line matches ("plain": none of them), val the number the pattern
   captures (year, account identifier, amount in thousandths). *)

Ln(k, n, t, v) == [kind |-> k, len |-> n, trail |-> t, val |-> v]

RawLen(l) == l.len + l.trail

IsEmptyLine(l) == RawLen(l) = 0

(* the lines of text whose position is not in dropped, in order *)
KeepLines(text, dropped) ==
    LET idx == SelectSeq([i \in 1..Len(text) |-> i], LAMBDA i : i \notin dropped)
    IN  [k \in 1..Len(idx) |-> text[idx[k]]]

(* lines 166-178 (reader: 134-146): one_character_line_regex ^( +|.|\n)$
   flags a line of one character, a line of blanks, and an empty line
   followed by an empty line (the two then merge into the flagged line);
   splitlines() drops an empty last line *)
one_character_line(text, i) ==
    \/ RawLen(text[i]) = 1
    \/ text[i].len = 0 /\ text[i].trail >= 1
    \/ /\ IsEmptyLine(text[i])
       /\ \/ i < Len(text) /\ IsEmptyLine(text[i + 1])
          \/ i > 1 /\ IsEmptyLine(text[i - 1])
          \/ i = Len(text)

flag_one_character_lines(text) ==
    KeepLines(text, {i \in 1..Len(text) : one_character_line(text, i)})

(* lines 181-182 (reader: 96-97, 149-150): statement_year_regex is searched
   without regex.M, so ^ is the start of the text; .group on None raises *)
has_year(text) == text # <<>> /\ text[1].kind = "year"

(* statement_year.group('year'): the year the first line states *)
year_of(text) == text[1].val

(* line 65: 'Administrator: Guideline' in text *)
identify(text) == \E i \in 1..Len(text) : text[i].kind = "admin"

NoAccount == [exc |-> "none", value |-> 0]

(* lines 422-427 (reader: 233-238): account_regex ^...$ with regex.M
   matches whole lines; a bare raise with no active exception is a
   RuntimeError, accounts[0] of an empty list an IndexError *)
searchAccounts(text) ==
    LET accounts == SelectSeq(text, LAMBDA l : l.kind = "account" /\ l.trail = 0)
    IN  IF Len(accounts) > 1 THEN [exc |-> "RuntimeError", value |-> 0]
        ELSE IF accounts = <<>> THEN [exc |-> "IndexError", value |-> 0]
        ELSE [exc |-> "none", value |-> accounts[1].val]

RECURSIVE split_join(_, _, _)
(* reader lines 243-245: regex.split on transaction_begin_regex, then
   '\n'.join(cleaned[1:]).  What is left of the first marker line is the
   blanks after the marker; a later marker line leaves an empty line before
   the join and its blanks after it.  Lines 1..n of text, seen: a marker
   line came before. *)
split_join(text, n, seen) ==
    IF n > Len(text) THEN <<>>
    ELSE IF text[n].kind = "marker"
         THEN (IF seen THEN <<Ln("plain", 0, 0, 0)>> ELSE <<>>)
                \o <<Ln("plain", 0, text[n].trail, 0)>>
                \o split_join(text, n + 1, TRUE)
         ELSE (IF seen THEN <<text[n]>> ELSE <<>>)
                \o split_join(text, n + 1, seen)

(* reader lines 256-283: the line is flagged by longer_than_70_regex, by
   words_to_remove_regex, or, once its trailing blanks are gone, by
   empty_line_regex or smaller_than_2_regex *)
flagged(text, i) ==
    \/ RawLen(text[i]) >= 70
    \/ text[i].kind = "word"
    \/ text[i].len = 0
    \/ text[i].len <= 2

(* reader lines 241-292: _clean_statement *)
cleanStatement(text) ==
    LET joined == split_join(text, 1, FALSE)
        kept == KeepLines(joined, {i \in 1..Len(joined) : flagged(joined, i)})
    IN  [k \in 1..Len(kept) |-> [kept[k] EXCEPT !.trail = 0]]

RECURSIVE line_ends(_, _)
(* lines 202-205 (reader: 170-173): m.end() of each match of '.*\n', that
   is of each of the first n lines, the ones a newline ends *)
line_ends(text, n) ==
    IF n <= 0 THEN <<>>
    ELSE LET prev == line_ends(text, n - 1)
         IN  Append(prev, (IF n = 1 THEN 0 ELSE prev[n - 1]) + RawLen(text[n]) + 1)

RECURSIVE line_start(_, _)
(* the offset in the text of the first character of line i *)
line_start(text, i) ==
    IF i = 1 THEN 0 ELSE line_start(text, i - 1) + RawLen(text[i - 1]) + 1

(* start(1) of a match relative to its line: the date of an aggregate line
   opens the line; the ticker follows 'Buy ', 'Sell ' or 'Reinvest ' *)
group_column(kind) ==
    CASE kind = "BUY" -> 4 [] kind = "SELL" -> 5 [] kind = "REINVEST" -> 9
      [] OTHER -> 0

(* next(i for i in range(len(line)) if line[i] > start): the 0-based
   position of the first offset beyond start, -1 for StopIteration *)
resolve(ends, start) ==
    LET later == {i \in 1..Len(ends) : ends[i] > start}
    IN  IF later = {} THEN -1
        ELSE (CHOOSE i \in later : \A j \in later : i <= j) - 1

(* one finditer loop: the matches of one pattern, in text order *)
matches(text, ends, kind) ==
    LET idx == SelectSeq([i \in 1..Len(text) |-> i], LAMBDA i : text[i].kind = kind)
    IN  [k \in 1..Len(idx) |->
            [line   |-> resolve(ends, line_start(text, idx[k]) + group_column(kind)),
             kind   |-> kind,
             amount |-> text[idx[k]].val]]

RECURSIVE sorted(_)
(* sorted(..., key=lambda x: x[0]): stable *)
sorted(s) ==
    IF s = <<>> THEN <<>>
    ELSE LET n    == Len(s)
             init == sorted(SubSeq(s, 1, n - 1))
             pos  == Cardinality({i \in 1..(n - 1) : init[i].line <= s[n].line})
         IN  SubSeq(init, 1, pos) \o <<s[n]>> \o SubSeq(init, pos + 1, n - 1)

(* the account identifier(s) the importer is configured with *)
account_number == {1}

Failure(e, acc, cs, ends) ==
    [exc |-> e, account |-> acc, clean_statement |-> cs, line |-> ends,
     aggregate_operations |-> <<>>, postings |-> <<>>]

(* GuidelineImporter_PDF.getOperations, lines 164-335 (the reader's
   _getOperations, lines 132-230, is the same text): the two sorted lists,
   or the exception raised on the way *)
getOperations(parsed_statement) ==
    LET st == flag_one_character_lines(parsed_statement)
    IN  IF ~has_year(st) THEN Failure("AttributeError", NoAccount, <<>>, <<>>)
        ELSE
        LET acc == searchAccounts(st)
        IN  IF acc.exc # "none" THEN Failure(acc.exc, acc, <<>>, <<>>)
            ELSE IF acc.value \notin account_number
            THEN Failure("UnboundLocalError", acc, <<>>, <<>>)
            ELSE
            LET cs   == cleanStatement(st)
                ends == line_ends(cs, Len(cs) - 1)
                aggr == matches(cs, ends, "PAYROLL") \o matches(cs, ends, "FEE")
                          \o matches(cs, ends, "EXCHANGE")
                          \o matches(cs, ends, "DIVIDEND")
                post == matches(cs, ends, "BUY") \o matches(cs, ends, "SELL")
                          \o matches(cs, ends, "REINVEST")
            IN  IF \E k \in 1..Len(aggr \o post) : (aggr \o post)[k].line = -1
                THEN Failure("StopIteration", acc, cs, ends)
                ELSE [exc |-> "none", account |-> acc, clean_statement |-> cs,
                      line |-> ends,
                      aggregate_operations |-> sorted(aggr),
                      postings |-> sorted(post)]

---------------------------------------------------------------------------
(* GuidelineImporter_PDF.extract, lines 83-159 *)

(* line 83 *)
MaxLineEnd(ops, posts) ==
    Max2(ops[Len(ops)].line, posts[Len(posts)].line) + 1

line_end_last(ops, i, mle) == mle

(* line 88 *)
line_end(ops, i, mle) == IF i < Len(ops) THEN ops[i + 1].line ELSE mle

file_postings_closed(ops, posts, i, mle) ==
    SelectSeq([k \in 1..Len(posts) |-> k],
              LAMBDA k : /\ ops[i].line <= posts[k].line
                         /\ posts[k].line < line_end(ops, i, mle))

file_postings_no_begin(ops, posts, i, mle) ==
    SelectSeq([k \in 1..Len(posts) |-> k],
              LAMBDA k : posts[k].line < line_end(ops, i, mle))

(* lines 87-90: the positions of the postings strictly inside the window *)
file_postings(ops, posts, i, mle) ==
    SelectSeq([k \in 1..Len(posts) |-> k],
              LAMBDA k : /\ ops[i].line < posts[k].line
                         /\ posts[k].line < line_end(ops, i, mle))

has_sell_first(posts, fp) ==
    fp # <<>> /\ posts[fp[1]].kind = "SELL"

(* line 92 *)
has_sell(posts, fp) ==
    \E k \in 1..Len(fp) : posts[fp[k]].kind = "SELL"

(* lines 95-99 *)
total_amount(op) ==
    IF op.kind \in {"PAYROLL", "DIVIDEND"} THEN op.amount
    ELSE IF op.kind = "FEE" THEN -op.amount
    ELSE 0

(* lines 100, 112-114: only the PAYROLL branch adds to running_amount *)
running_amount(op, posts, fp) ==
    IF op.kind = "PAYROLL" THEN SumAmounts(posts, fp, Len(fp)) ELSE 0

(* lines 104-155: one Transaction per posting of a PAYROLL window, none for
   the other kinds; lineno is the meta line, amount the cost of the posting,
   year the year of the date (line 141: op[2]['date'] + '/2022') *)
new_entries(op, posts, fp) ==
    IF op.kind = "PAYROLL"
    THEN [k \in 1..Len(fp) |->
            [lineno |-> posts[fp[k]].line, amount |-> posts[fp[k]].amount,
             year |-> ExtractYear]]
    ELSE <<>>

reconcile_fails_never(op, posts, fp) == FALSE

(* line 156 *)
reconcile_fails(op, posts, fp) ==
    /\ op.kind = "PAYROLL"
    /\ ~isclose(running_amount(op, posts, fp), total_amount(op), AbsTol)

(* lines 82-83: with the two lists in hand, compute max_line_end; [-1] of
   an empty list raises IndexError *)
ExtractBegin ==
    /\ pc = "extract"
    /\ IF aggregate_ops = <<>> \/ all_postings = <<>>
       THEN /\ outcome' = "IndexError"
            /\ pc' = "done"
            /\ UNCHANGED <<index, max_line_end>>
       ELSE /\ max_line_end' = MaxLineEnd(aggregate_ops, all_postings)
            /\ index' = 1
            /\ pc' = "loop"
            /\ UNCHANGED outcome
    /\ UNCHANGED <<aggregate_ops, all_postings, num_lines, entries, windows,
                   returned, rdr, rf_windows, statement_year>>
    /\ UNCHANGED text_vars
    /\ UNCHANGED obj_vars

ExtractGroup_reconcile_first ==
    /\ pc = "loop"
    /\ index <= Len(aggregate_ops)
    /\ LET op == aggregate_ops[index]
           fp == file_postings(aggregate_ops, all_postings, index, max_line_end)
       IN  /\ windows' = Append(windows, fp)
           /\ IF reconcile_fails(op, all_postings, fp)
              THEN /\ outcome' = "RuntimeError"
                   /\ pc' = "done"
                   /\ entries' = entries \o new_entries(op, all_postings, fp)
                   /\ UNCHANGED index
              ELSE IF has_sell(all_postings, fp)
              THEN /\ index' = index + 1
                   /\ UNCHANGED <<pc, entries, outcome>>
              ELSE /\ entries' = entries \o new_entries(op, all_postings, fp)
                   /\ index' = index + 1
                   /\ UNCHANGED <<pc, outcome>>
    /\ UNCHANGED <<aggregate_ops, all_postings, num_lines, max_line_end,
                   returned, rdr, rf_windows, statement_year>>
    /\ UNCHANGED text_vars
    /\ UNCHANGED obj_vars

(* lines 85-157: one iteration of the loop over aggregate_ops *)
ExtractGroup ==
    /\ pc = "loop"
    /\ index <= Len(aggregate_ops)
    /\ LET op == aggregate_ops[index]
           fp == file_postings(aggregate_ops, all_postings, index, max_line_end)
       IN  /\ windows' = Append(windows, fp)
           /\ IF has_sell(all_postings, fp)
              THEN /\ index' = index + 1
                   /\ UNCHANGED <<pc, entries, outcome>>
              ELSE IF reconcile_fails(op, all_postings, fp)
              THEN /\ outcome' = "RuntimeError"
                   /\ pc' = "done"
                   /\ entries' = entries \o new_entries(op, all_postings, fp)
                   /\ UNCHANGED index
              ELSE /\ entries' = entries \o new_entries(op, all_postings, fp)
                   /\ index' = index + 1
                   /\ UNCHANGED <<pc, outcome>>
    /\ UNCHANGED <<aggregate_ops, all_postings, num_lines, max_line_end,
                   returned, rdr, rf_windows, statement_year>>
    /\ UNCHANGED text_vars
    /\ UNCHANGED obj_vars

(* line 159 *)
ExtractReturn ==
    /\ pc = "loop"
    /\ index > Len(aggregate_ops)
    /\ returned' = entries
    /\ outcome' = "returned"
    /\ pc' = "done"
    /\ UNCHANGED <<aggregate_ops, all_postings, num_lines, index, max_line_end,
                   entries, windows, rdr, rf_windows, statement_year>>
    /\ UNCHANGED text_vars
    /\ UNCHANGED obj_vars

---------------------------------------------------------------------------
(* Importer.read_file, lines 100-114: the rows built from the two lists *)

max_line_next(ops, i, nl) ==
    IF i < Len(ops) THEN ops[i + 1].line ELSE ops[i].line + 1

(* line 103 *)
max_line(ops, i, nl) == IF i < Len(ops) THEN ops[i + 1].line ELSE nl

(* lines 102-105: post[0] in range(min_line, max_line) *)
postings(ops, posts, i, nl) ==
    SelectSeq([k \in 1..Len(posts) |-> k],
              LAMBDA k : /\ ops[i].line <= posts[k].line
                         /\ posts[k].line < max_line(ops, i, nl))

(* lines 104, 106-113: the date ends in the statement year; the amount goes
   to the Amount column, or for a FEE operation to the "Fees & Comm" column *)
rows_of(op, posts, ps, year) ==
    [k \in 1..Len(ps) |->
        [action |-> posts[ps[k]].kind,
         year   |-> year,
         column |-> IF op.kind # "FEE" THEN "Amount" ELSE "Fees & Comm",
         value  |-> posts[ps[k]].amount]]

RECURSIVE csv_rows(_, _, _, _, _)
(* lines 100-113: the rows of the first n aggregate operations *)
csv_rows(ops, posts, nl, n, year) ==
    IF n = 0 THEN <<>>
    ELSE csv_rows(ops, posts, nl, n - 1, year)
           \o rows_of(ops[n], posts, postings(ops, posts, n, nl), year)

ReadFile ==
    /\ pc = "extract"
    /\ rdr' = csv_rows(aggregate_ops, all_postings, num_lines, Len(aggregate_ops),
                       statement_year)
    /\ rf_windows' = [i \in 1..Len(aggregate_ops) |->
                         postings(aggregate_ops, all_postings, i, num_lines)]
    /\ pc' = "done"
    /\ outcome' = "read"
    /\ UNCHANGED <<aggregate_ops, all_postings, num_lines, index, max_line_end,
                   entries, windows, returned, statement_year>>
    /\ UNCHANGED text_vars
    /\ UNCHANGED obj_vars

---------------------------------------------------------------------------
(* The aggregator on the lists of every layout within the bounds.  A layout
   gives, for each line 0..MaxLine of a cleaned text, the matches that start
   on it: none, one aggregate operation, one posting, or (a tie) two of
   them.  The lists are as sorted() leaves them: ascending line, equal lines
   in discovery order. *)

PostingCells ==
    [kind : {"BUY"}, amount : BuyAmounts]
      \cup [kind : {"SELL"}, amount : SellAmounts]
      \cup [kind : {"REINVEST"}, amount : ReinvestAmounts]

EventCells == [kind : AggrOps, amount : EventAmounts]

Cells ==
    {[ev |-> <<>>, po |-> <<>>]}
      \cup {[ev |-> <<e>>, po |-> <<>>] : e \in EventCells}
      \cup {[ev |-> <<>>, po |-> <<p>>] : p \in PostingCells}
      \cup {[ev |-> <<e, f>>, po |-> <<>>] :
              e \in {x \in EventCells : x.kind = "FEE"},
              f \in {x \in EventCells : x.kind = "DIVIDEND"}}
      \cup {[ev |-> <<e>>, po |-> <<p>>] :
              e \in {x \in EventCells : x.kind = "PAYROLL"},
              p \in {x \in PostingCells : x.kind = "BUY" /\ x.amount = 500}}

RECURSIVE EventsOf(_, _)
(* the aggregate operations on lines 0..n-1 of a layout, sorted *)
EventsOf(layout, n) ==
    IF n = 0 THEN <<>>
    ELSE EventsOf(layout, n - 1)
           \o [k \in 1..Len(layout[n - 1].ev) |->
                 [line |-> n - 1, kind |-> layout[n - 1].ev[k].kind,
                  amount |-> layout[n - 1].ev[k].amount]]

RECURSIVE PostingsOf(_, _)
(* the postings on lines 0..n-1 of a layout, sorted *)
PostingsOf(layout, n) ==
    IF n = 0 THEN <<>>
    ELSE PostingsOf(layout, n - 1)
           \o [k \in 1..Len(layout[n - 1].po) |->
                 [line |-> n - 1, kind |-> layout[n - 1].po[k].kind,
                  amount |-> layout[n - 1].po[k].amount]]

InitExtract ==
    /\ \E layout \in [0..MaxLine -> Cells] :
          /\ aggregate_ops = EventsOf(layout, MaxLine + 1)
          /\ all_postings = PostingsOf(layout, MaxLine + 1)
    /\ num_lines = MaxLine + 1 + HeaderLines
    /\ statement_year \in StatementYears
    /\ file = NoFile
    /\ file_read_done = "False"
    /\ ifile = NoFile
    /\ statement = <<>>
    /\ account = NoAccount
    /\ clean_statement = <<>>
    /\ line = <<>>
    /\ pc = "extract"
    /\ index = 0
    /\ max_line_end = 0
    /\ entries = <<>>
    /\ windows = <<>>
    /\ outcome = "running"
    /\ returned = <<>>
    /\ rdr = <<>>
    /\ rf_windows = <<>>

NextExtract == ExtractBegin \/ ExtractGroup \/ ExtractReturn \/ ReadFile

SpecExtract == InitExtract /\ [][NextExtract]_vars

---------------------------------------------------------------------------
(* The two entry points on the text of a statement *)

(* reader line 98: len(text.splitlines()) *)
count_lines(text) ==
    IF text # <<>> /\ IsEmptyLine(text[Len(text)]) THEN Len(text) - 1 ELSE Len(text)

(* GuidelineImporter_PDF.extract, lines 71-83: up to the loop *)
ExtractCall ==
    /\ pc = "start"
    /\ IF ~identify(statement)
       THEN /\ returned' = <<>>
            /\ outcome' = "returned"
            /\ pc' = "done"
            /\ UNCHANGED <<account, clean_statement, line, aggregate_ops,
                           all_postings, index, max_line_end, statement_year>>
       ELSE LET r  == getOperations(statement)
                st == flag_one_character_lines(statement)
            IN  /\ account' = r.account
                /\ statement_year' = IF has_year(st) THEN year_of(st)
                                     ELSE statement_year
                /\ clean_statement' = r.clean_statement
                /\ line' = r.line
                /\ aggregate_ops' = r.aggregate_operations
                /\ all_postings' = r.postings
                /\ UNCHANGED returned
                /\ IF r.exc # "none"
                   THEN /\ outcome' = r.exc
                        /\ pc' = "done"
                        /\ UNCHANGED <<index, max_line_end>>
                   ELSE IF r.aggregate_operations = <<>> \/ r.postings = <<>>
                   THEN /\ outcome' = "IndexError"
                        /\ pc' = "done"
                        /\ UNCHANGED <<index, max_line_end>>
                   ELSE /\ max_line_end' = MaxLineEnd(r.aggregate_operations, r.postings)
                        /\ index' = 1
                        /\ pc' = "loop"
                        /\ UNCHANGED outcome
    /\ UNCHANGED <<statement, num_lines, entries, windows, rdr, rf_windows>>
    /\ UNCHANGED obj_vars

(* Importer.read_file, lines 93-127, on a reader that initialize_reader has
   made ready for the file *)
ReadFileCall ==
    /\ pc = "start"
    /\ file_read_done = "False"
    /\ pc' = "done"
    /\ IF ~has_year(statement)
       THEN /\ outcome' = "AttributeError"
            /\ UNCHANGED <<account, clean_statement, line, aggregate_ops,
                           all_postings, num_lines, rdr, rf_windows,
                           statement_year, file_read_done, ifile>>
       ELSE LET r  == getOperations(statement)
                nl == count_lines(statement)
            IN  /\ num_lines' = nl
                /\ statement_year' = year_of(statement)
                /\ account' = r.account
                /\ clean_statement' = r.clean_statement
                /\ line' = r.line
                /\ aggregate_ops' = r.aggregate_operations
                /\ all_postings' = r.postings
                /\ IF r.exc # "none"
                   THEN /\ outcome' = r.exc
                        /\ UNCHANGED <<rdr, rf_windows, file_read_done, ifile>>
                   ELSE /\ outcome' = "read"
                        /\ rdr' = csv_rows(r.aggregate_operations, r.postings, nl,
                                           Len(r.aggregate_operations),
                                           year_of(statement))
                        /\ rf_windows' =
                             [i \in 1..Len(r.aggregate_operations) |->
                                postings(r.aggregate_operations, r.postings, i, nl)]
                        /\ ifile' = statement
                        /\ file_read_done' = "True"
    /\ UNCHANGED <<statement, index, max_line_end, entries, windows, returned, file>>

SeqsUpTo(S, n) == UNION {[1..k -> S] : k \in 0..n}

(* the lines of the enumerated statements *)
YearLine == Ln("year", 27, 0, 2023)

YearLine2022 == Ln("year", 27, 0, 2022)

AdminLine == Ln("admin", 24, 0, 0)

AccountA == Ln("account", 5, 0, 1)

AccountB == Ln("account", 5, 0, 2)

MarkerLine == Ln("marker", 46, 0, 0)

PlainLine == Ln("plain", 12, 0, 0)

TinyLine == Ln("plain", 1, 0, 0)

(* the headings: the usual one, one of the year 2022, another account, no
   account, one account shown twice, two accounts, no administrator line, no
   statement year, a one-character line first *)
Heads ==
    {<<YearLine, AdminLine, AccountA>>,
     <<YearLine2022, AdminLine, AccountA>>,
     <<YearLine, AdminLine, AccountB>>,
     <<YearLine, AdminLine>>,
     <<YearLine, AdminLine, AccountA, AccountA>>,
     <<YearLine, AdminLine, AccountA, AccountB>>,
     <<YearLine, AccountA>>,
     <<AdminLine, AccountA>>,
     <<TinyLine, YearLine, AdminLine, AccountA>>}

BodyLines ==
    {Ln("PAYROLL", 30, 0, 1000), Ln("DIVIDEND", 32, 0, 1000),
     Ln("BUY", 24, 0, 1000), Ln("SELL", 25, 0, 500), PlainLine, TinyLine}

Init ==
    /\ \E h \in Heads, m \in {<<>>, <<MarkerLine>>}, b \in SeqsUpTo(BodyLines, MaxBody) :
          statement = h \o m \o b
    /\ statement_year = 0
    /\ file = statement
    /\ file_read_done = "False"
    /\ ifile = NoFile
    /\ account = NoAccount
    /\ clean_statement = <<>>
    /\ line = <<>>
    /\ pc = "start"
    /\ aggregate_ops = <<>>
    /\ all_postings = <<>>
    /\ num_lines = 0
    /\ index = 0
    /\ max_line_end = 0
    /\ entries = <<>>
    /\ windows = <<>>
    /\ outcome = "running"
    /\ returned = <<>>
    /\ rdr = <<>>
    /\ rf_windows = <<>>

Next == ExtractCall \/ ExtractGroup \/ ExtractReturn \/ ReadFileCall

Spec == Init /\ [][Next]_vars

---------------------------------------------------------------------------
(* _clean_statement alone, on every text within the bounds, and again on
   what it gave *)

CleanLines ==
    {MarkerLine, Ln("marker", 46, 1, 0),
     Ln("plain", 0, 0, 0), Ln("plain", 0, 2, 0), Ln("plain", 2, 0, 0),
     Ln("plain", 3, 0, 0), Ln("plain", 3, 1, 0), Ln("plain", 69, 0, 0),
     Ln("plain", 69, 1, 0), Ln("plain", 70, 0, 0), Ln("word", 26, 0, 0),
     Ln("BUY", 24, 0, 1000)}

CleanStatement ==
    /\ pc = "clean"
    /\ clean_statement' = cleanStatement(statement)
    /\ line' = line_ends(cleanStatement(statement), Len(cleanStatement(statement)) - 1)
    /\ pc' = "cleaned"
    /\ UNCHANGED <<statement, account, aggregate_ops, all_postings, num_lines,
                   index, max_line_end, entries, windows, outcome, returned,
                   rdr, rf_windows, statement_year>>
    /\ UNCHANGED obj_vars

CleanAgain ==
    /\ pc = "cleaned"
    /\ statement' = clean_statement
    /\ clean_statement' = cleanStatement(clean_statement)
    /\ line' = line_ends(cleanStatement(clean_statement),
                         Len(cleanStatement(clean_statement)) - 1)
    /\ pc' = "recleaned"
    /\ UNCHANGED <<account, aggregate_ops, all_postings, num_lines,
                   index, max_line_end, entries, windows, outcome, returned,
                   rdr, rf_windows, statement_year>>
    /\ UNCHANGED obj_vars

InitClean ==
    /\ statement \in SeqsUpTo(CleanLines, MaxCleanLines)
    /\ statement_year = 0
    /\ file = NoFile
    /\ file_read_done = "False"
    /\ ifile = NoFile
    /\ account = NoAccount
    /\ clean_statement = <<>>
    /\ line = <<>>
    /\ pc = "clean"
    /\ aggregate_ops = <<>>
    /\ all_postings = <<>>
    /\ num_lines = 0
    /\ index = 0
    /\ max_line_end = 0
    /\ entries = <<>>
    /\ windows = <<>>
    /\ outcome = "running"
    /\ returned = <<>>
    /\ rdr = <<>>
    /\ rf_windows = <<>>

NextClean == CleanStatement \/ CleanAgain

SpecClean == InitClean /\ [][NextClean]_vars

---------------------------------------------------------------------------
(* What the claims speak of, stated on the two lists alone *)

LastLine(s) == s[Len(s)].line

(* the closing bound of event i's window *)
WindowEnd(i) ==
    IF i < Len(aggregate_ops) THEN aggregate_ops[i + 1].line
    ELSE 1 + (IF LastLine(aggregate_ops) >= LastLine(all_postings)
              THEN LastLine(aggregate_ops) ELSE LastLine(all_postings))

(* the positions of the postings strictly inside event i's window *)
Window(i) ==
    {k \in 1..Len(all_postings) :
        /\ aggregate_ops[i].line < all_postings[k].line
        /\ all_postings[k].line < WindowEnd(i)}

RECURSIVE AmountOf(_)
AmountOf(S) ==
    IF S = {} THEN 0
    ELSE LET k == CHOOSE x \in S : TRUE
         IN  all_postings[k].amount + AmountOf(S \ {k})

WindowHasSell(i) == \E k \in Window(i) : all_postings[k].kind = "SELL"

(* the loop of extract has run for event i *)
Handled(i) == i \in 1..Len(windows)

(* the iteration of event i raised *)
FailedAt(i) == outcome = "RuntimeError" /\ index = i

(* entries holds an entry made from posting k *)
Emitted(k) ==
    \E e \in 1..Len(entries) :
        /\ entries[e].lineno = all_postings[k].line
        /\ entries[e].amount = all_postings[k].amount

Range(s) == {s[k] : k \in 1..Len(s)}

(* C1: a PAYROLL event processed by extract whose window holds no SELL
   posting raises the reconciliation failure exactly when the sum of the
   window's posting amounts differs from the event amount by more than 0.01;
   otherwise an entry is emitted for each posting of the window. *)
C1_PayrollTolerance ==
    \A i \in 1..Len(aggregate_ops) :
        (Handled(i) /\ aggregate_ops[i].kind = "PAYROLL" /\ ~WindowHasSell(i))
        => /\ ~FailedAt(i)
                <=> Abs(AmountOf(Window(i)) - aggregate_ops[i].amount) <= 10
           /\ ~FailedAt(i) => \A k \in Window(i) : Emitted(k)

(* a PAYROLL group whose postings sum to the amount plus 0.005 was emitted
   and extract returned *)
C1_Witness ==
    /\ outcome = "returned"
    /\ returned # <<>>
    /\ \E i \in 1..Len(aggregate_ops) :
          /\ Handled(i)
          /\ aggregate_ops[i].kind = "PAYROLL"
          /\ ~WindowHasSell(i)
          /\ AmountOf(Window(i)) - aggregate_ops[i].amount = 5

(* C2: a DIVIDEND or FEE event processed by extract whose window holds no
   SELL posting and whose posting amounts do not sum to the event amount
   (for FEE the negated amount) within 0.01 raises the reconciliation
   failure. *)
C2_DividendFeeReconciled ==
    \A i \in 1..Len(aggregate_ops) :
        (/\ Handled(i)
         /\ aggregate_ops[i].kind \in {"DIVIDEND", "FEE"}
         /\ ~WindowHasSell(i)
         /\ Abs(AmountOf(Window(i))
                  - (IF aggregate_ops[i].kind = "FEE"
                     THEN -aggregate_ops[i].amount
                     ELSE aggregate_ops[i].amount)) > 10)
        => FailedAt(i)

(* C3: once a processed PAYROLL group fails reconciliation, extract has
   ended with the error and the caller has received no entry; and the
   caller receives entries from a normal return only. *)
C3_FailureIsFileFatal ==
    /\ (\E i \in 1..Len(aggregate_ops) :
           /\ Handled(i)
           /\ aggregate_ops[i].kind = "PAYROLL"
           /\ ~WindowHasSell(i)
           /\ Abs(AmountOf(Window(i)) - aggregate_ops[i].amount) > 10)
       => (pc = "done" /\ outcome = "RuntimeError" /\ returned = <<>>)
    /\ outcome # "returned" => returned = <<>>

(* the second group failed after the first had built entries: the caller
   got none of them *)
C3_Witness ==
    /\ FailedAt(2)
    /\ pc = "done"
    /\ entries # <<>>
    /\ \E e \in 1..Len(entries) : entries[e].lineno < aggregate_ops[2].line
    /\ returned = <<>>

(* C4: no entry is emitted for a posting of a window that holds a SELL
   posting, whatever the kind of the event. *)
C4_SellSuppression ==
    \A i \in 1..Len(aggregate_ops) :
        (Handled(i) /\ WindowHasSell(i))
        => \A k \in Window(i) :
              /\ ~Emitted(k)
              /\ \A e \in 1..Len(returned) :
                    returned[e].lineno # all_postings[k].line

(* extract returned after it had skipped a PAYROLL window holding a BUY
   and then a SELL posting *)
C4_Witness ==
    /\ outcome = "returned"
    /\ \E i \in 1..Len(aggregate_ops) :
          /\ Handled(i)
          /\ aggregate_ops[i].kind = "PAYROLL"
          /\ \E k, m \in Window(i) :
                /\ k < m
                /\ all_postings[k].kind = "BUY"
                /\ all_postings[m].kind = "SELL"

(* C5: no posting is collected into the windows of two events, neither by
   extract nor by read_file, also when two events share a line. *)
C5_WindowsDisjoint ==
    /\ \A i, j \in 1..Len(windows) :
          i # j => Range(windows[i]) \cap Range(windows[j]) = {}
    /\ \A i, j \in 1..Len(rf_windows) :
          i # j => Range(rf_windows[i]) \cap Range(rf_windows[j]) = {}

(* extract handled two events on one line, and a posting after them went
   to the second one alone *)
C5_Witness ==
    /\ Len(windows) >= 2
    /\ aggregate_ops[1].line = aggregate_ops[2].line
    /\ windows[1] = <<>>
    /\ windows[2] # <<>>

(* C6: the postings extract collects for event i are exactly those with
   events[i].line < posting.line < window_end; a posting on the line of an
   event header is collected by no window, and every posting after the last
   event is collected by the last event's window. *)
C6_WindowRule ==
    \A i \in 1..Len(windows) :
        /\ Range(windows[i]) = Window(i)
        /\ \A k \in 1..Len(all_postings) :
              (\E j \in 1..Len(aggregate_ops) :
                  aggregate_ops[j].line = all_postings[k].line)
              => k \notin Range(windows[i])
        /\ \A k \in 1..Len(all_postings) :
              (i = Len(aggregate_ops)
                 /\ all_postings[k].line > LastLine(aggregate_ops))
              => k \in Range(windows[i])

(* every window was computed, one posting sits on the line of an event
   header and another one after the last event *)
C6_Witness ==
    /\ aggregate_ops # <<>>
    /\ Len(windows) = Len(aggregate_ops)
    /\ \E k \in 1..Len(all_postings) :
          \E j \in 1..Len(aggregate_ops) :
              aggregate_ops[j].line = all_postings[k].line
    /\ \E k \in 1..Len(all_postings) :
          /\ all_postings[k].line > LastLine(aggregate_ops)
          /\ k \in Range(windows[Len(windows)])

---------------------------------------------------------------------------
(* What the claims speak of, stated on the text *)

(* the distinct account identifiers the statement shows, on the text
   _searchAccounts is given *)
ShownAccounts ==
    LET st == flag_one_character_lines(statement)
    IN  {st[i].val : i \in {j \in 1..Len(st) : st[j].kind = "account" /\ st[j].trail = 0}}

(* _searchAccounts has been called *)
SearchedAccounts == account # NoAccount

(* the call went on to _clean_statement and the matcher *)
ReachedMatcher ==
    /\ pc \in {"loop", "done"}
    /\ account.exc = "none"
    /\ account.value \in account_number

(* C7: on a statement that shows an account identifier, _searchAccounts
   fails exactly when more than one distinct identifier is shown, and a
   statement showing a single identifier is accepted with that identifier. *)
C7_AmbiguousIffDistinct ==
    (SearchedAccounts /\ ShownAccounts # {})
    => /\ account.exc # "none" <=> Cardinality(ShownAccounts) > 1
       /\ Cardinality(ShownAccounts) = 1
            => account.exc = "none" /\ account.value \in ShownAccounts

(* C8: _clean_statement applied to its own output returns that output
   unchanged. *)
C8_CleanIdempotent ==
    pc = "recleaned" => clean_statement = statement

(* C9: every aggregate or posting match in the cleaned text, on any line of
   it, resolves to the 0-based number of its line. *)
C9_LineResolved ==
    ReachedMatcher
    => \A i \in 1..Len(clean_statement) :
          /\ clean_statement[i].kind \in AggrOps
               => \E k \in 1..Len(aggregate_ops) :
                     /\ aggregate_ops[k].line = i - 1
                     /\ aggregate_ops[k].kind = clean_statement[i].kind
          /\ clean_statement[i].kind \in Postings
               => \E k \in 1..Len(all_postings) :
                     /\ all_postings[k].line = i - 1
                     /\ all_postings[k].kind = clean_statement[i].kind

(* C10: a statement whose cleaned text holds no aggregate match (and no
   match on its last line) ends without an exception, with an empty list of
   aggregate operations and no entry. *)
C10_NoAggregateNoError ==
    (/\ ReachedMatcher
     /\ pc = "done"
     /\ \A i \in 1..Len(clean_statement) : clean_statement[i].kind \notin AggrOps
     /\ clean_statement # <<>>
          => clean_statement[Len(clean_statement)].kind \notin Postings)
    => /\ outcome \in {"returned", "read"}
       /\ aggregate_ops = <<>>
       /\ returned = <<>>

(* C11: a statement whose account identifier is not among the configured
   ones is rejected: the call ends normally with no aggregate operation, no
   posting, no entry and no row. *)
C11_OtherAccountRejected ==
    (/\ pc = "done"
     /\ SearchedAccounts
     /\ account.exc = "none"
     /\ account.value \notin account_number)
    => /\ outcome \in {"returned", "read"}
       /\ aggregate_ops = <<>>
       /\ all_postings = <<>>
       /\ returned = <<>>
       /\ rdr = <<>>

---------------------------------------------------------------------------
(* One Importer object over several statement files: initialize_reader and
   read_file called in any order with any of the files *)

PayrollLine == Ln("PAYROLL", 30, 0, 1000)

BuyLine == Ln("BUY", 24, 0, 1000)

SellLine == Ln("SELL", 25, 0, 500)

(* the files: a payroll with a buy, one with a sell, one with both, the
   first one in a statement of 2022, and a statement of another account *)
ReaderFiles ==
    {<<YearLine, AdminLine, AccountA, MarkerLine, PayrollLine, BuyLine, PlainLine>>,
     <<YearLine, AdminLine, AccountA, MarkerLine, PayrollLine, SellLine, PlainLine>>,
     <<YearLine, AdminLine, AccountA, MarkerLine, PayrollLine, BuyLine, SellLine, PlainLine>>,
     <<YearLine2022, AdminLine, AccountA, MarkerLine, PayrollLine, BuyLine, PlainLine>>,
     <<YearLine, AdminLine, AccountB, MarkerLine, PayrollLine, BuyLine, PlainLine>>}

(* reader lines 38-47: the attributes are set when the file differs from
   self.file, and only then *)
InitializeReader ==
    /\ pc = "reader"
    /\ \E f \in ReaderFiles :
          IF file # f
          THEN /\ file' = f
               /\ file_read_done' = "False"
          ELSE UNCHANGED <<file, file_read_done>>
    /\ UNCHANGED <<statement, account, clean_statement, line, pc, aggregate_ops,
                   all_postings, num_lines, index, max_line_end, entries,
                   windows, outcome, returned, rdr, rf_windows, statement_year,
                   ifile>>

(* reader lines 92-127, called with the file f: the body runs only while
   self.file_read_done is false; reading the attribute before
   initialize_reader has set it raises AttributeError *)
ReaderReadFile ==
    /\ pc = "reader"
    /\ \E f \in ReaderFiles :
          /\ statement' = f
          /\ IF file_read_done = "unset"
             THEN /\ outcome' = "AttributeError"
                  /\ UNCHANGED <<account, clean_statement, line, aggregate_ops,
                                 all_postings, num_lines, rdr, rf_windows,
                                 statement_year, file_read_done, ifile>>
             ELSE IF file_read_done = "True"
             THEN /\ outcome' = "read"
                  /\ UNCHANGED <<account, clean_statement, line, aggregate_ops,
                                 all_postings, num_lines, rdr, rf_windows,
                                 statement_year, file_read_done, ifile>>
             ELSE IF ~has_year(f)
             THEN /\ outcome' = "AttributeError"
                  /\ UNCHANGED <<account, clean_statement, line, aggregate_ops,
                                 all_postings, num_lines, rdr, rf_windows,
                                 statement_year, file_read_done, ifile>>
             ELSE LET r  == getOperations(f)
                      nl == count_lines(f)
                  IN  /\ num_lines' = nl
                      /\ statement_year' = year_of(f)
                      /\ account' = r.account
                      /\ clean_statement' = r.clean_statement
                      /\ line' = r.line
                      /\ aggregate_ops' = r.aggregate_operations
                      /\ all_postings' = r.postings
                      /\ IF r.exc # "none"
                         THEN /\ outcome' = r.exc
                              /\ UNCHANGED <<rdr, rf_windows, file_read_done, ifile>>
                         ELSE /\ outcome' = "read"
                              /\ rdr' = csv_rows(r.aggregate_operations, r.postings,
                                                 nl, Len(r.aggregate_operations),
                                                 year_of(f))
                              /\ rf_windows' =
                                   [i \in 1..Len(r.aggregate_operations) |->
                                      postings(r.aggregate_operations, r.postings, i, nl)]
                              /\ ifile' = f
                              /\ file_read_done' = "True"
    /\ UNCHANGED <<pc, index, max_line_end, entries, windows, returned, file>>

(* a new Importer: none of the attributes is set yet *)
InitReader ==
    /\ statement = <<>>
    /\ statement_year = 0
    /\ file = NoFile
    /\ file_read_done = "unset"
    /\ ifile = NoFile
    /\ account = NoAccount
    /\ clean_statement = <<>>
    /\ line = <<>>
    /\ pc = "reader"
    /\ aggregate_ops = <<>>
    /\ all_postings = <<>>
    /\ num_lines = 0
    /\ index = 0
    /\ max_line_end = 0
    /\ entries = <<>>
    /\ windows = <<>>
    /\ outcome = "running"
    /\ returned = <<>>
    /\ rdr = <<>>
    /\ rf_windows = <<>>

NextReader == InitializeReader \/ ReaderReadFile

SpecReader == InitReader /\ [][NextReader]_vars

(* the rows read_file builds from the file f alone *)
RowsOf(f) ==
    LET r == getOperations(f)
    IN  csv_rows(r.aggregate_operations, r.postings, count_lines(f),
                 Len(r.aggregate_operations), year_of(f))

(* C12: whenever read_file has returned for a file (one that a fresh reader
   reads without error), self.rdr holds the rows of that file, whatever was
   read before and whether or not initialize_reader was called again. *)
C12_NoCarryOver ==
    (pc = "reader" /\ outcome = "read" /\ getOperations(statement).exc = "none")
    => rdr = RowsOf(statement)

---------------------------------------------------------------------------
(* C13: the line-end offsets built over the cleaned text are strictly
   increasing and there are as many of them as the cleaned text has lines. *)
C13_LineIndexInvariant ==
    ReachedMatcher
    => /\ \A i, j \in 1..Len(line) : i < j => line[i] < line[j]
       /\ Len(line) = Len(clean_statement)

(* the lines of text after its first marker line; all of text when it has
   no marker line *)
BodyOf(text) ==
    LET ms == {i \in 1..Len(text) : text[i].kind = "marker"}
    IN  IF ms = {} THEN text
        ELSE SubSeq(text, (CHOOSE i \in ms : \A j \in ms : i <= j) + 1, Len(text))

(* the lines of body that are neither noise nor a marker line, without their
   trailing blanks *)
Retained(body) ==
    LET kept == KeepLines(body, {i \in 1..Len(body) :
                                    flagged(body, i) \/ body[i].kind = "marker"})
    IN  [k \in 1..Len(kept) |-> [kept[k] EXCEPT !.trail = 0]]

(* C14: the cleaner keeps the non-noise lines of what follows the first
   marker line, and of the whole text when the text has no marker line. *)
C14_BodyIsolation ==
    pc = "cleaned" => clean_statement = Retained(BodyOf(statement))

(* C15: a statement that shows no account identifier ends in a defined
   outcome, a normal end with nothing produced, and not in a failure raised
   by the account lookup. *)
C15_NoAccountUnrecognized ==
    (pc = "done" /\ ShownAccounts = {})
    => \/ outcome = "returned" /\ returned = <<>>
       \/ outcome = "read" /\ rdr = <<>>

---------------------------------------------------------------------------
(* posting k lies in the window of no event *)
Orphan(k) == \A i \in 1..Len(aggregate_ops) : k \notin Window(i)

(* C16: a posting outside every event's window yields no entry, is collected
   into no group (so it is in no running total), and is not what makes
   extract fail: extract fails only for want of any aggregate operation or
   on a PAYROLL group whose own window does not sum to its amount. *)
C16_OrphanExcluded ==
    \A k \in 1..Len(all_postings) :
        Orphan(k)
        => /\ ~Emitted(k)
           /\ \A e \in 1..Len(returned) : returned[e].lineno # all_postings[k].line
           /\ \A i \in 1..Len(windows) : k \notin Range(windows[i])
           /\ outcome \in {"IndexError", "RuntimeError"}
                => \/ aggregate_ops = <<>>
                   \/ \E i \in 1..Len(aggregate_ops) :
                         /\ FailedAt(i)
                         /\ aggregate_ops[i].kind = "PAYROLL"
                         /\ Abs(AmountOf(Window(i)) - aggregate_ops[i].amount) > 10

(* extract returned entries for a statement with a posting before the first
   event and a posting on the line of an event header *)
C16_Witness ==
    /\ outcome = "returned"
    /\ returned # <<>>
    /\ \E k \in 1..Len(all_postings) :
          Orphan(k) /\ all_postings[k].line < aggregate_ops[1].line
    /\ \E k \in 1..Len(all_postings) :
          /\ Orphan(k)
          /\ \E i \in 1..Len(aggregate_ops) :
                aggregate_ops[i].line = all_postings[k].line

---------------------------------------------------------------------------
(* C17: every entry extract makes and every row read_file makes carries the
   year the statement states. *)
C17_StatementYear ==
    /\ \A e \in 1..Len(entries) : entries[e].year = statement_year
    /\ \A e \in 1..Len(returned) : returned[e].year = statement_year
    /\ \A r \in 1..Len(rdr) : rdr[r].year = statement_year

---------------------------------------------------------------------------
(* the caller received an entry made from posting k *)
Returned(k) ==
    \E e \in 1..Len(returned) :
        /\ returned[e].lineno = all_postings[k].line
        /\ returned[e].amount = all_postings[k].amount

(* the postings of event i's window sum to its amount (negated for a FEE)
   within 0.01 *)
Validated(i) ==
    Abs(AmountOf(Window(i))
          - (IF aggregate_ops[i].kind = "FEE" THEN -aggregate_ops[i].amount
             ELSE aggregate_ops[i].amount)) <= 10

(* C18: when extract returns, its output holds, in ascending line order, the
   group of every PAYROLL, FEE or DIVIDEND event whose window has no SELL
   posting and validates, and nothing of the windows that hold a SELL. *)
C18_EveryValidatedGroupEmitted ==
    outcome = "returned"
    => /\ \A i \in 1..Len(aggregate_ops) :
             (/\ aggregate_ops[i].kind \in {"PAYROLL", "FEE", "DIVIDEND"}
              /\ ~WindowHasSell(i)
              /\ Validated(i))
             => \A k \in Window(i) : Returned(k)
       /\ \A i \in 1..Len(aggregate_ops) :
             WindowHasSell(i) => \A k \in Window(i) : ~Returned(k)
       /\ \A e, f \in 1..Len(returned) :
             e < f => returned[e].lineno <= returned[f].lineno

---------------------------------------------------------------------------
(* the positions in S, ascending *)
Ascending(S) ==
    [j \in 1..Cardinality(S) |->
        CHOOSE k \in S : Cardinality({m \in S : m < k}) = j - 1]

RECURSIVE EntriesUpTo(_)
(* the line and amount of the entries the first n events give when a window
   holding a SELL counts as a window without postings: one entry for each
   posting of the other PAYROLL windows, in order *)
EntriesUpTo(n) ==
    IF n = 0 THEN <<>>
    ELSE EntriesUpTo(n - 1)
           \o (IF aggregate_ops[n].kind = "PAYROLL" /\ ~WindowHasSell(n)
               THEN [j \in 1..Cardinality(Window(n)) |->
                       <<all_postings[Ascending(Window(n))[j]].line,
                         all_postings[Ascending(Window(n))[j]].amount>>]
               ELSE <<>>)

(* C19: an event whose window holds a SELL posting never raises the
   reconciliation failure, whatever its postings sum to, and the entries
   built are those of the other events' windows, in the same order, as if
   the skipped event had no postings. *)
C19_SellSkipFrame ==
    /\ \A i \in 1..Len(aggregate_ops) :
          (Handled(i) /\ WindowHasSell(i)) => ~FailedAt(i)
    /\ [e \in 1..Len(entries) |-> <<entries[e].lineno, entries[e].amount>>]
         = EntriesUpTo(Len(windows))

(* extract returned the entries of a later PAYROLL group after it had
   skipped a PAYROLL group whose window, holding a SELL, does not sum to the
   event amount *)
C19_Witness ==
    /\ outcome = "returned"
    /\ returned # <<>>
    /\ \E i \in 1..Len(aggregate_ops) :
          /\ aggregate_ops[i].kind = "PAYROLL"
          /\ WindowHasSell(i)
          /\ Abs(AmountOf(Window(i)) - aggregate_ops[i].amount) > 10
          /\ \E e \in 1..Len(returned) : returned[e].lineno > WindowEnd(i) - 1

---------------------------------------------------------------------------
(* no posting stands on the line of an aggregate operation *)
NoPostingOnEventLine ==
    \A k \in 1..Len(all_postings) :
        \A j \in 1..Len(aggregate_ops) :
            all_postings[k].line # aggregate_ops[j].line

(* the raw text has more lines than any match's line number *)
LineCountAbove ==
    /\ \A j \in 1..Len(aggregate_ops) : aggregate_ops[j].line < num_lines
    /\ \A k \in 1..Len(all_postings) : all_postings[k].line < num_lines

(* C20: when no posting shares a line with an event and the raw line count
   exceeds every match line, read_file puts under each event the postings
   extract collects for it: each window either method has computed equals
   the other method's window for that event. *)
C20_SameAssignment ==
    (NoPostingOnEventLine /\ LineCountAbove /\ all_postings # <<>>)
    => /\ \A i \in 1..Len(rf_windows) :
             Range(rf_windows[i])
               = Range(file_postings(aggregate_ops, all_postings, i,
                                     MaxLineEnd(aggregate_ops, all_postings)))
       /\ \A i \in 1..Len(windows) :
             Range(windows[i]) = Range(postings(aggregate_ops, all_postings, i, num_lines))

(* read_file ran on two events, the first with a posting under it, the last
   with a posting after it *)
C20_Witness ==
    /\ outcome = "read"
    /\ NoPostingOnEventLine
    /\ Len(rf_windows) >= 2
    /\ rf_windows[1] # <<>>
    /\ rf_windows[Len(rf_windows)] # <<>>

====
